---- MODULE Spec2Model ----
(***************************************************************************)
(* A model of the UCAN token pipeline of ts-ucan: the capability model     *)
(* (ability equality), the token builder (buildPayload, build, sign), the  *)
(* codec (encode, encodeHeader, encodePayload, parseHeader, parsePayload)  *)
(* and the single-layer validator (validate, isExpired, isTooEarly).       *)
(*                                                                         *)
(* Strings that the code only compares are TLA+ strings; strings the code  *)
(* takes apart are structured: an ability string is a sequence of          *)
(* characters, an identifier (DID) is a record of its parts, an encoded    *)
(* token is the sequence of its dot-separated segments, and a segment is   *)
(* a record telling what its bytes are.  A JavaScript value that may be    *)
(* undefined is <<>> (undefined) or <<v>>.                                 *)
(***************************************************************************)
EXTENDS Integers, Sequences, FiniteSets, TLC

VARIABLES
    clock,      \* Math.floor(Date.now() / 1000)
    ticks,      \* how often the clock has advanced
    pc,         \* where the pipeline is
    params,     \* the parameters of the last build / buildPayload call
    signArgs,   \* [payload, keyType, key] of the sign call in progress
    signCalls,  \* how often the injected signFn has been invoked
    builtAt,    \* the clock when the payload was built
    ucan,       \* the token sign returned
    wire,       \* the encoded token handed to validate
    tamper,     \* how wire was derived from ucan
    options,    \* the options argument of the validate call
    opts,       \* validate's locals checkIssuer, checkIsExpired, ...
    vstate,     \* validate's locals: header, payload, signature
    log,        \* the checks validate has executed, in order
    reads,      \* the clock values validate has read, in order
    result,     \* the outcome of the last operation
    abA, abB,   \* the abilities compared
    abRes       \* [isEqual, isSameAbility] of abA and abB

vars == <<clock, ticks, pc, params, signArgs, signCalls, builtAt, ucan, wire,
          tamper, options, opts, vstate, log, reads, result, abA, abB, abRes>>

pipeVars == <<clock, ticks, pc, params, signArgs, signCalls, builtAt, ucan,
              wire, tamper, options, opts, vstate, log, reads, result>>

(***************************************************************************)
(* Bounds                                                                  *)
(***************************************************************************)
MaxSegs == 2        \* segments of an ability
MaxTicks == 1       \* clock advances in one behaviour
MaxTime == 2        \* largest timestamp a caller supplies
MaxWire == 4        \* dot-separated segments of a hand-made token string

(***************************************************************************)
(* JavaScript values                                                       *)
(***************************************************************************)
Undefined == <<>>

Some(v) == <<v>>

IsDefined(m) == m /= Undefined

Get(m) == m[1]

RECURSIVE SeqsUpTo(_, _)
SeqsUpTo(S, n) ==
    IF n = 0 THEN {<<>>}
    ELSE LET shorter == SeqsUpTo(S, n - 1)
         IN  shorter \cup {Append(s, x) : s \in {t \in shorter : Len(t) = n - 1}, x \in S}

(***************************************************************************)
(* Capability model: abilities                                             *)
(***************************************************************************)
\* src/src/capability/types.ts: Ability = Superuser | {namespace, segments}
SUPERUSER == [kind |-> "superuser", namespace |-> <<>>, segments |-> <<>>]

Structured(ns, segs) == [kind |-> "structured", namespace |-> ns, segments |-> segs]

\* String.prototype.toLowerCase, on the letters the model uses
toLowerChar(c) ==
    CASE c = "N" -> "n"
      [] c = "R" -> "r"
      [] OTHER -> c

toLowerCase(s) == [i \in DOMAIN s |-> toLowerChar(s[i])]

\* Array.prototype.join("/")
RECURSIVE joinSegments(_)
joinSegments(segments) ==
    IF Len(segments) = 0 THEN <<>>
    ELSE IF Len(segments) = 1 THEN segments[1]
    ELSE segments[1] \o <<"/">> \o joinSegments(Tail(segments))

RECURSIVE joinAbilitySegments(_)
joinAbilitySegments(segments) ==
    IF Len(segments) = 0 THEN <<>>
    ELSE IF Len(segments) = 1 THEN segments[1]
    ELSE segments[1] \o <<"/">> \o joinAbilitySegments(Tail(segments))

\* a slip: the namespace compared as written
isEqual_CaseSensitive(a, b) ==
    IF a = SUPERUSER /\ b = SUPERUSER THEN TRUE
    ELSE IF a = SUPERUSER \/ b = SUPERUSER THEN FALSE
    ELSE /\ a.namespace = b.namespace
         /\ toLowerCase(joinSegments(a.segments)) = toLowerCase(joinSegments(b.segments))

\* a slip: || for &&
isEqual_EitherMatches(a, b) ==
    IF a = SUPERUSER /\ b = SUPERUSER THEN TRUE
    ELSE IF a = SUPERUSER \/ b = SUPERUSER THEN FALSE
    ELSE \/ toLowerCase(a.namespace) = toLowerCase(b.namespace)
         \/ toLowerCase(joinSegments(a.segments)) = toLowerCase(joinSegments(b.segments))

isEqual(a, b) ==
    IF a = SUPERUSER /\ b = SUPERUSER THEN TRUE
    ELSE IF a = SUPERUSER \/ b = SUPERUSER THEN FALSE
    ELSE /\ toLowerCase(a.namespace) = toLowerCase(b.namespace)
         /\ toLowerCase(joinSegments(a.segments)) = toLowerCase(joinSegments(b.segments))

isSameAbility(a, b) ==
    IF a = SUPERUSER /\ b = SUPERUSER THEN TRUE
    ELSE IF a = SUPERUSER \/ b = SUPERUSER THEN FALSE
    ELSE /\ toLowerCase(a.namespace) = toLowerCase(b.namespace)
         /\ toLowerCase(joinAbilitySegments(a.segments))
                = toLowerCase(joinAbilitySegments(b.segments))

\* the abilities the checks range over
Namespaces == {<<"n">>, <<"N">>, <<"m">>}

SegmentStrings == {<<"r">>, <<"R">>, <<"r", "/", "r">>}

Abilities ==
    {SUPERUSER} \cup
    {Structured(ns, segs) : ns \in Namespaces, segs \in SeqsUpTo(SegmentStrings, MaxSegs)}

(***************************************************************************)
(* Identifiers, keys and signatures: the services the token code calls     *)
(***************************************************************************)
KeyTypes == {"ed25519", "rsa", "bls12-381"}

\* a Keypair: its type and its public key
Keypairs ==
    { [keyType |-> "ed25519", publicKey |-> "pkE"],
      [keyType |-> "rsa", publicKey |-> "pkR"],
      [keyType |-> "bls12-381", publicKey |-> "pkB"] }

\* did.publicKeyBytesToDid
publicKeyBytesToDid(publicKey, keyType) ==
    [scheme |-> "did", method |-> "key", keyType |-> keyType, publicKey |-> publicKey]

\* did.didToPublicKey throws on an identifier that is no did:key
didDecodes(d) == d.scheme = "did" /\ d.method = "key" /\ d.keyType \in KeyTypes

didToPublicKey(d) == [publicKey |-> d.publicKey, type |-> d.keyType]

\* String.prototype.startsWith("did:")
startsWithDid(d) == d.scheme = "did"

DidWeb == [scheme |-> "did", method |-> "web", keyType |-> "", publicKey |-> "example.org"]

NotADid == [scheme |-> "mailto", method |-> "", keyType |-> "", publicKey |-> "bob"]

AudienceDid == publicKeyBytesToDid("pkAud", "ed25519")

OtherAudienceDid == publicKeyBytesToDid("pkMallory", "ed25519")

NoSig == [signer |-> "", msg |-> <<>>]

\* keypair.sign(data): the signature of data under the keypair's private key
keypairSign(publicKey, data) == [signer |-> publicKey, msg |-> data]

(***************************************************************************)
(* Objects, JSON and base64url                                             *)
(***************************************************************************)
FieldNames == {"alg", "typ", "ucv", "aud", "att", "exp", "fct", "iss", "nbf", "nnc", "prf"}

\* an object literal: its own keys in order (a key whose value is undefined is
\* an own key too) and the value read from each property
MkObject(entries) ==
    [own |-> [i \in DOMAIN entries |-> entries[i][1]],
     f   |-> [k \in FieldNames |->
                IF \E i \in DOMAIN entries : entries[i][1] = k
                THEN entries[CHOOSE i \in DOMAIN entries : entries[i][1] = k][2]
                ELSE Undefined]]

EmptyObject == MkObject(<<>>)

\* obj[k]: undefined when obj has no such property
Prop(obj, k) == obj.f[k]

\* { ...obj, [k]: v } of an own key k
WithProp(obj, k, v) == [obj EXCEPT !.f[k] = v]

IsDefinedKey(obj, k) == IsDefined(obj.f[k])

\* JSON.stringify of an object: the members with a defined value, in key order
JSONstringify(obj) ==
    [members |-> SelectSeq(obj.own, LAMBDA k : IsDefined(obj.f[k])),
     body    |-> obj.f]

\* JSON.parse of the text of an object
JSONparse(text) ==
    [own |-> text.members,
     f   |-> [k \in FieldNames |->
                IF \E i \in DOMAIN text.members : text.members[i] = k
                THEN text.body[k] ELSE Undefined]]

NoText == JSONstringify(EmptyObject)

\* uint8arrays.toString(uint8arrays.fromString(text, "utf8"), "base64url")
base64urlOfText(text) == [kind |-> "json", text |-> text, sig |-> NoSig]

\* uint8arrays.toString(sig, "base64url")
base64urlOfBytes(sig) == [kind |-> "sig", text |-> NoText, sig |-> sig]

\* a string that is no base64url
RawSegment == [kind |-> "raw", text |-> NoText, sig |-> NoSig]

\* uint8arrays.fromString(segment, "base64url") throws
base64urlThrows(segment) == segment.kind = "raw"

\* JSON.parse of the decoded bytes throws
JSONparseThrows(segment) == segment.kind /= "json"

(***************************************************************************)
(* Token builder                                                           *)
(***************************************************************************)
TYPE == "JWT"

VERSION == "0.8.1"

DefaultLifetime == 30

\* util.generateNonce()
generateNonce == "nonce-1"

\* a ?? b and the default of a destructured parameter
OrDefault(m, d) == IF IsDefined(m) THEN Get(m) ELSE d

\* a || b of an optional number a: 0 is falsy like undefined
OrElse(m, d) == IF IsDefined(m) /\ Get(m) /= 0 THEN Get(m) ELSE d

\* a slip: the unsupported key type falls through to a default algorithm
jwtAlgorithmThrows_Fallback(keyType) == FALSE

jwtAlgorithmThrows(keyType) == keyType \notin {"ed25519", "rsa"}

jwtAlgorithm(keyType) == IF keyType = "ed25519" THEN "EdDSA" ELSE "RS256"

\* the checks of buildPayload that throw
buildPayloadThrows(p) == ~startsWithDid(p.issuer) \/ ~startsWithDid(p.audience)

\* a slip: the default lifetime forgotten
buildPayload_NoLifetime(p, now) ==
    LET capabilities      == OrDefault(p.capabilities, <<>>)
        lifetimeInSeconds == OrDefault(p.lifetimeInSeconds, 0)
        proofs            == OrDefault(p.proofs, <<>>)
        addNonce          == OrDefault(p.addNonce, FALSE)
        exp               == OrElse(p.expiration, now + lifetimeInSeconds)
    IN  MkObject(<< <<"aud", Some(p.audience)>>,
                    <<"att", Some(capabilities)>>,
                    <<"exp", Some(exp)>>,
                    <<"fct", p.facts>>,
                    <<"iss", Some(p.issuer)>>,
                    <<"nbf", p.notBefore>>,
                    <<"nnc", IF addNonce THEN Some(generateNonce) ELSE Undefined>>,
                    <<"prf", Some(proofs)>> >>)

buildPayload(p, now) ==
    LET capabilities      == OrDefault(p.capabilities, <<>>)
        lifetimeInSeconds == OrDefault(p.lifetimeInSeconds, DefaultLifetime)
        proofs            == OrDefault(p.proofs, <<>>)
        addNonce          == OrDefault(p.addNonce, FALSE)
        exp               == OrElse(p.expiration, now + lifetimeInSeconds)
    IN  MkObject(<< <<"aud", Some(p.audience)>>,
                    <<"att", Some(capabilities)>>,
                    <<"exp", Some(exp)>>,
                    <<"fct", p.facts>>,
                    <<"iss", Some(p.issuer)>>,
                    <<"nbf", p.notBefore>>,
                    <<"nnc", IF addNonce THEN Some(generateNonce) ELSE Undefined>>,
                    <<"prf", Some(proofs)>> >>)

\* sign's header
signHeader(keyType) ==
    MkObject(<< <<"alg", Some(jwtAlgorithm(keyType))>>,
                <<"typ", Some(TYPE)>>,
                <<"ucv", Some(VERSION)>> >>)

(***************************************************************************)
(* Token codec                                                             *)
(***************************************************************************)
encodeHeader(header) == base64urlOfText(JSONstringify(header))

encodePayload(payload) == base64urlOfText(JSONstringify(payload))

\* a slip: the header encoded where the payload belongs
encode_HeaderTwice(u) == <<encodeHeader(u.header), encodeHeader(u.header), u.signature>>

\* an encoded token is the sequence of its dot-separated segments
encode(u) == <<encodeHeader(u.header), encodePayload(u.payload), u.signature>>

\* "" when the segment parses, else the kind of the error thrown
parseHeaderError(encodedUcanHeader) ==
    IF base64urlThrows(encodedUcanHeader) THEN "MalformedEncoding"
    ELSE IF JSONparseThrows(encodedUcanHeader) THEN "MalformedStructure"
    ELSE ""

parseHeader(encodedUcanHeader) == JSONparse(encodedUcanHeader.text)

parsePayloadError(encodedUcanPayload) ==
    IF base64urlThrows(encodedUcanPayload) THEN "MalformedEncoding"
    ELSE IF JSONparseThrows(encodedUcanPayload) THEN "MalformedStructure"
    ELSE ""

parsePayload(encodedUcanPayload) == JSONparse(encodedUcanPayload.text)

\* handleCompatibility throws unless the two objects are a header and a payload
handleCompatibilityThrows(header, payload) ==
    \/ \E k \in {"alg", "typ", "ucv"} : ~IsDefinedKey(header, k)
    \/ \E k \in {"iss", "aud", "exp"} : ~IsDefinedKey(payload, k)

\* verifySignatureUtf8(data, signature, did)
verifySignatureUtf8(data, signature, iss) ==
    /\ didDecodes(iss)
    /\ signature.kind = "sig"
    /\ signature.sig.signer = didToPublicKey(iss).publicKey
    /\ signature.sig.msg = data

\* a slip: a token still accepted in the second it expires
isExpired_Strict(u, now) == Get(Prop(u.payload, "exp")) < now

isExpired(u, now) == Get(Prop(u.payload, "exp")) <= now

isTooEarly(u, now) ==
    IF ~IsDefinedKey(u.payload, "nbf") THEN FALSE
    ELSE Get(Prop(u.payload, "nbf")) > now

(***************************************************************************)
(* The pipeline: build, sign, encode, validate                             *)
(***************************************************************************)
MaxLifetime == 1    \* largest lifetimeInSeconds a caller supplies

NoUcan == [header |-> EmptyObject, payload |-> EmptyObject, signature |-> RawSegment]

NoResult == [op |-> "", status |-> "none", error |-> ""]

Ok(op) == [op |-> op, status |-> "ok", error |-> ""]

Thrown(op, e) == [op |-> op, status |-> "error", error |-> e]

NoParams ==
    [via |-> "", issuer |-> NotADid, audience |-> NotADid, capabilities |-> Undefined,
     lifetimeInSeconds |-> Undefined, expiration |-> Undefined, notBefore |-> Undefined,
     facts |-> Undefined, proofs |-> Undefined, addNonce |-> Undefined]

NoSignArgs == [payload |-> EmptyObject, keyType |-> "", key |-> ""]

AllChecks == [checkIssuer |-> TRUE, checkIsExpired |-> TRUE,
              checkIsTooEarly |-> TRUE, checkSignature |-> TRUE]

SampleCapability ==
    [with |-> [scheme |-> "my", hierPart |-> "*"], can |-> SUPERUSER]

OptTimes == {Undefined} \cup {Some(t) : t \in 0..MaxTime}

OptLifetimes == {Undefined} \cup {Some(t) : t \in 1..MaxLifetime}

TickSteps == {1, DefaultLifetime}

PipeInit ==
    /\ clock = 1
    /\ ticks = 0
    /\ pc = "idle"
    /\ params = NoParams
    /\ signArgs = NoSignArgs
    /\ signCalls = 0
    /\ builtAt = 0
    /\ ucan = NoUcan
    /\ wire = <<>>
    /\ tamper = ""
    /\ options = Undefined
    /\ opts = AllChecks
    /\ vstate = NoUcan
    /\ log = <<>>
    /\ reads = <<>>
    /\ result = NoResult

AbilityIdle ==
    /\ abA = SUPERUSER
    /\ abB = SUPERUSER
    /\ abRes = [done |-> FALSE, isEqual |-> FALSE, isSameAbility |-> FALSE]

\* Date.now() moves on: before validate is called, and between the two reads
\* of the clock in validate
Tick ==
    /\ pc \in {"wire", "nbf"}
    /\ ticks < MaxTicks
    /\ \E d \in TickSteps : clock' = clock + d
    /\ ticks' = ticks + 1
    /\ UNCHANGED <<pc, params, signArgs, signCalls, builtAt, ucan, wire, tamper,
                   options, opts, vstate, log, reads, result, abA, abB, abRes>>

\* sign(payload, keyType, signFn) up to its await; signFn signs with `key`
SignStart(op, payload, keyType, key) ==
    /\ signArgs' = [payload |-> payload, keyType |-> keyType, key |-> key]
    /\ IF jwtAlgorithmThrows(keyType)
       THEN /\ result' = Thrown(op, "UnsupportedKeyType")
            /\ pc' = "failed"
            /\ UNCHANGED signCalls
       ELSE IF ~didDecodes(Get(Prop(payload, "iss")))
       THEN /\ result' = Thrown(op, "InvalidIdentifier")
            /\ pc' = "failed"
            /\ UNCHANGED signCalls
       ELSE IF didToPublicKey(Get(Prop(payload, "iss"))).type /= keyType
       THEN /\ result' = Thrown(op, "IssuerKeyTypeMismatch")
            /\ pc' = "failed"
            /\ UNCHANGED signCalls
       ELSE /\ result' = NoResult
            /\ pc' = "signing"
            /\ signCalls' = signCalls + 1

\* build(params): publicKeyBytesToDid, buildPayload, signWithKeypair
BuildWith(capabilities, lifetimes) ==
    /\ pc = "idle"
    /\ \E kp \in Keypairs, aud \in {AudienceDid, NotADid},
          caps \in capabilities, life \in lifetimes,
          expiration \in OptTimes, nbf \in OptTimes,
          nonce \in {Undefined, Some(TRUE)} :
         LET didStr == publicKeyBytesToDid(kp.publicKey, kp.keyType)
             p == [via |-> "build", issuer |-> didStr, audience |-> aud,
                   capabilities |-> caps, lifetimeInSeconds |-> life,
                   expiration |-> expiration, notBefore |-> nbf, facts |-> Undefined,
                   proofs |-> Undefined, addNonce |-> nonce]
         IN  /\ params' = p
             /\ builtAt' = clock
             /\ IF buildPayloadThrows(p)
                THEN /\ result' = Thrown("build", "InvalidIdentifier")
                     /\ pc' = "failed"
                     /\ UNCHANGED <<signArgs, signCalls>>
                ELSE SignStart("build", buildPayload(p, clock), kp.keyType, kp.publicKey)
    /\ UNCHANGED <<abA, abB, abRes, clock, ticks, ucan, wire, tamper, options, opts,
                   vstate, log, reads>>

\* build with the default lifetime and no capabilities
Build == BuildWith({Undefined}, {Undefined})

\* build with any parameters
BuildAny == BuildWith({Undefined, Some(<<SampleCapability>>)}, OptLifetimes)

\* Date.now() moves on before build is called
TickIdle ==
    /\ pc = "idle"
    /\ ticks < MaxTicks
    /\ \E d \in TickSteps : clock' = clock + d
    /\ ticks' = ticks + 1
    /\ UNCHANGED <<pc, params, signArgs, signCalls, builtAt, ucan, wire, tamper,
                   options, opts, vstate, log, reads, result, abA, abB, abRes>>

\* sign called with a payload from buildPayload, any key type and any signFn
Sign ==
    /\ pc = "idle"
    /\ \E iss \in {publicKeyBytesToDid(kp.publicKey, kp.keyType) : kp \in Keypairs}
                    \cup {DidWeb, NotADid},
          kp \in Keypairs :
         LET p == [NoParams EXCEPT !.via = "sign", !.issuer = iss, !.audience = AudienceDid]
         IN  /\ params' = p
             /\ builtAt' = clock
             /\ IF buildPayloadThrows(p)
                THEN /\ result' = Thrown("buildPayload", "InvalidIdentifier")
                     /\ pc' = "failed"
                     /\ UNCHANGED <<signArgs, signCalls>>
                ELSE SignStart("sign", buildPayload(p, clock), kp.keyType, kp.publicKey)
    /\ UNCHANGED <<abA, abB, abRes, clock, ticks, ucan, wire, tamper, options, opts,
                   vstate, log, reads>>

\* the token sign returns once signFn, which signs with `key`, has resolved
signedUcan(payload, keyType, key) ==
    LET header == signHeader(keyType)
        toSign == <<encodeHeader(header), encodePayload(payload)>>
        sig    == keypairSign(key, toSign)
    IN  [header |-> header, payload |-> payload, signature |-> base64urlOfBytes(sig)]

\* signFn resolves and sign returns the token
SignReturn ==
    /\ pc = "signing"
    /\ ucan' = signedUcan(signArgs.payload, signArgs.keyType, signArgs.key)
    /\ result' = Ok(params.via)
    /\ pc' = "built"
    /\ UNCHANGED <<abA, abB, abRes, clock, ticks, params, signArgs, signCalls, builtAt,
                   wire, tamper,
                   options, opts, vstate, log, reads>>

\* encode(ucan)
Encode ==
    /\ pc = "built"
    /\ wire' = encode(ucan)
    /\ tamper' = "none"
    /\ pc' = "wire"
    /\ UNCHANGED <<abA, abB, abRes, clock, ticks, params, signArgs, signCalls, builtAt,
                   ucan, options, opts,
                   vstate, log, reads, result>>

\* encode({ ...ucan, payload: { ...ucan.payload, aud: another } })
TamperAudience ==
    /\ pc = "built"
    /\ \E aud \in {AudienceDid, OtherAudienceDid} \ {Get(Prop(ucan.payload, "aud"))} :
         wire' = encode([ucan EXCEPT !.payload = WithProp(@, "aud", Some(aud))])
    /\ tamper' = "audience"
    /\ pc' = "wire"
    /\ UNCHANGED <<abA, abB, abRes, clock, ticks, params, signArgs, signCalls, builtAt,
                   ucan, options, opts,
                   vstate, log, reads, result>>

\* the encoded token with another signature segment: signed by another key,
\* or signed over another message
TamperSignature ==
    /\ pc = "built"
    /\ \E s \in { base64urlOfBytes(keypairSign("pkMallory", ucan.signature.sig.msg)),
                  base64urlOfBytes(keypairSign(ucan.signature.sig.signer,
                                               <<encodeHeader(ucan.header),
                                                 encodePayload(EmptyObject)>>)) }
                  \ {ucan.signature} :
         wire' = <<encodeHeader(ucan.header), encodePayload(ucan.payload), s>>
    /\ tamper' = "signature"
    /\ pc' = "wire"
    /\ UNCHANGED <<abA, abB, abRes, clock, ticks, params, signArgs, signCalls, builtAt,
                   ucan, options, opts,
                   vstate, log, reads, result>>

\* the encoded token with "." and more text after it
AppendSegment ==
    /\ pc = "built"
    /\ wire' = Append(encode(ucan), RawSegment)
    /\ tamper' = "extra"
    /\ pc' = "wire"
    /\ UNCHANGED <<abA, abB, abRes, clock, ticks, params, signArgs, signCalls, builtAt,
                   ucan, options, opts,
                   vstate, log, reads, result>>

\* the segments hand-made token strings are made of
HandHeader == encodeHeader(signHeader("ed25519"))

HandPayload ==
    encodePayload(buildPayload(
        [NoParams EXCEPT !.issuer = publicKeyBytesToDid("pkE", "ed25519"),
                         !.audience = AudienceDid,
                         !.expiration = Some(MaxTime)], 1))

HandSignature == base64urlOfBytes(keypairSign("pkE", <<HandHeader, HandPayload>>))

HandSegments ==
    {RawSegment, base64urlOfText(NoText), HandHeader, HandPayload, HandSignature}

\* any string handed to validate: a string is the non-empty sequence of the
\* dot-free strings that String.prototype.split(".") returns
Present ==
    /\ pc = "idle"
    /\ \E w \in SeqsUpTo(HandSegments, MaxWire) \ {<<>>} : wire' = w
    /\ tamper' = "handmade"
    /\ pc' = "wire"
    /\ UNCHANGED <<abA, abB, abRes, clock, ticks, params, signArgs, signCalls, builtAt,
                   ucan, options, opts,
                   vstate, log, reads, result>>

(***************************************************************************)
(* validate                                                                *)
(***************************************************************************)
\* const [ encodedHeader, encodedPayload, signature ] = encodedUcan.split(".")
\* and the null check on the three
splitThrows(w) == Len(w) < 3

\* validate from the split to handleCompatibility: the checks executed, the
\* error thrown ("" for none) and the three parts
Decode(w) ==
    IF splitThrows(w)
    THEN [err |-> "MalformedFormat", log |-> <<"split">>, u |-> NoUcan]
    ELSE IF parseHeaderError(w[1]) /= ""
    THEN [err |-> parseHeaderError(w[1]), log |-> <<"split", "parseHeader">>, u |-> NoUcan]
    ELSE IF parsePayloadError(w[2]) /= ""
    THEN [err |-> parsePayloadError(w[2]),
          log |-> <<"split", "parseHeader", "parsePayload">>, u |-> NoUcan]
    ELSE IF handleCompatibilityThrows(parseHeader(w[1]), parsePayload(w[2]))
    THEN [err |-> "MalformedStructure",
          log |-> <<"split", "parseHeader", "parsePayload", "compatibility">>,
          u |-> NoUcan]
    ELSE [err |-> "",
          log |-> <<"split", "parseHeader", "parsePayload", "compatibility">>,
          u |-> [header |-> parseHeader(w[1]), payload |-> parsePayload(w[2]),
                 signature |-> w[3]]]

\* the issuer check: "" when it passes, else the kind of the error thrown
issuerCheckError(u) ==
    LET iss == Get(Prop(u.payload, "iss"))
    IN  IF ~didDecodes(iss) THEN "InvalidIdentifier"
        ELSE IF jwtAlgorithmThrows(didToPublicKey(iss).type) THEN "UnsupportedKeyType"
        ELSE IF jwtAlgorithm(didToPublicKey(iss).type) /= Get(Prop(u.header, "alg"))
        THEN "IssuerAlgorithmMismatch"
        ELSE ""

\* a check is left on (undefined) or turned off
OptionValues == {Undefined, Some(FALSE)}

\* the options argument: none, or an object
OptionsArguments ==
    {Undefined} \cup
    {Some(o) : o \in [checkIssuer : OptionValues, checkIsExpired : OptionValues,
                      checkIsTooEarly : OptionValues, checkSignature : OptionValues]}

\* options?.k
OptionalProp(o, k) == IF IsDefined(o) THEN Get(o)[k] ELSE Undefined

\* a slip: the signature check off unless asked for
resolveOptions_SignatureOff(o) ==
    [checkIssuer     |-> OrDefault(OptionalProp(o, "checkIssuer"), TRUE),
     checkIsExpired  |-> OrDefault(OptionalProp(o, "checkIsExpired"), TRUE),
     checkIsTooEarly |-> OrDefault(OptionalProp(o, "checkIsTooEarly"), TRUE),
     checkSignature  |-> OrDefault(OptionalProp(o, "checkSignature"), FALSE)]

\* const checkIssuer = options?.checkIssuer ?? true, ...
resolveOptions(o) ==
    [checkIssuer     |-> OrDefault(OptionalProp(o, "checkIssuer"), TRUE),
     checkIsExpired  |-> OrDefault(OptionalProp(o, "checkIsExpired"), TRUE),
     checkIsTooEarly |-> OrDefault(OptionalProp(o, "checkIsTooEarly"), TRUE),
     checkSignature  |-> OrDefault(OptionalProp(o, "checkSignature"), TRUE)]

\* validate(encodedUcan, options) up to the signature check
ValidateStart ==
    /\ pc = "wire"
    /\ \E o \in OptionsArguments :
         /\ options' = o
         /\ opts' = resolveOptions(o)
    /\ LET d == Decode(wire)
       IN  IF d.err /= ""
           THEN /\ result' = Thrown("validate", d.err)
                /\ log' = d.log
                /\ pc' = "done"
                /\ vstate' = NoUcan
           ELSE IF opts'.checkIssuer /\ issuerCheckError(d.u) /= ""
           THEN /\ result' = Thrown("validate", issuerCheckError(d.u))
                /\ log' = Append(d.log, "issuer")
                /\ pc' = "done"
                /\ vstate' = NoUcan
           ELSE /\ result' = NoResult
                /\ log' = IF opts'.checkIssuer THEN Append(d.log, "issuer") ELSE d.log
                /\ pc' = "sig"
                /\ vstate' = d.u
    /\ reads' = <<>>
    /\ UNCHANGED <<abA, abB, abRes, clock, ticks, params, signArgs, signCalls, builtAt,
                   ucan, wire, tamper>>

\* a slip: the failed verification is not thrown
ValidateSignature_NoThrow ==
    /\ pc = "sig"
    /\ log' = IF opts.checkSignature THEN Append(log, "signature") ELSE log
    /\ pc' = "exp"
    /\ UNCHANGED <<abA, abB, abRes, clock, ticks, params, signArgs, signCalls, builtAt,
                   ucan, wire,
                   tamper, options, opts, vstate, reads, result>>

\* if (checkSignature) { if (!await verifySignatureUtf8(...)) throw ... }
ValidateSignature ==
    /\ pc = "sig"
    /\ IF opts.checkSignature
       THEN /\ log' = Append(log, "signature")
            /\ IF verifySignatureUtf8(<<wire[1], wire[2]>>, vstate.signature,
                                      Get(Prop(vstate.payload, "iss")))
               THEN pc' = "exp" /\ UNCHANGED result
               ELSE pc' = "done" /\ result' = Thrown("validate", "InvalidSignature")
       ELSE pc' = "exp" /\ UNCHANGED <<log, result>>
    /\ UNCHANGED <<abA, abB, abRes, clock, ticks, params, signArgs, signCalls, builtAt,
                   ucan, wire,
                   tamper, options, opts, vstate, reads>>

\* if (checkIsExpired && isExpired(ucan)) throw ...
ValidateExpired ==
    /\ pc = "exp"
    /\ IF opts.checkIsExpired
       THEN /\ log' = Append(log, "expiry")
            /\ reads' = Append(reads, clock)
            /\ IF isExpired(vstate, clock)
               THEN pc' = "done" /\ result' = Thrown("validate", "Expired")
               ELSE pc' = "nbf" /\ UNCHANGED result
       ELSE pc' = "nbf" /\ UNCHANGED <<log, reads, result>>
    /\ UNCHANGED <<abA, abB, abRes, clock, ticks, params, signArgs, signCalls, builtAt,
                   ucan, wire,
                   tamper, options, opts, vstate>>

\* if (checkIsTooEarly && isTooEarly(ucan)) throw ...; return ucan
ValidateTooEarly ==
    /\ pc = "nbf"
    /\ IF opts.checkIsTooEarly
       THEN /\ log' = Append(log, "notBefore")
            /\ reads' = Append(reads, clock)
            /\ IF isTooEarly(vstate, clock)
               THEN result' = Thrown("validate", "NotYetValid")
               ELSE result' = Ok("validate")
       ELSE /\ result' = Ok("validate")
            /\ UNCHANGED <<log, reads>>
    /\ pc' = "done"
    /\ UNCHANGED <<abA, abB, abRes, clock, ticks, params, signArgs, signCalls, builtAt,
                   ucan, wire,
                   tamper, options, opts, vstate>>

Init == PipeInit /\ AbilityIdle

Next ==
    \/ Build
    \/ SignReturn
    \/ Encode
    \/ TamperAudience
    \/ TamperSignature
    \/ AppendSegment
    \/ Present
    \/ ValidateStart
    \/ ValidateSignature
    \/ ValidateExpired
    \/ ValidateTooEarly
    \/ Tick

Spec == Init /\ [][Next]_vars

\* the builder alone, with every parameter and every key type
NextBuild ==
    \/ TickIdle
    \/ BuildAny
    \/ Sign
    \/ SignReturn

SpecBuild == Init /\ [][NextBuild]_vars

\* the ability comparisons alone
InitAbility ==
    /\ PipeInit
    /\ abA \in Abilities
    /\ abB \in Abilities
    /\ abRes = [done |-> FALSE, isEqual |-> FALSE, isSameAbility |-> FALSE]

Compare ==
    /\ ~abRes.done
    /\ abRes' = [done |-> TRUE, isEqual |-> isEqual(abA, abB),
                 isSameAbility |-> isSameAbility(abA, abB)]
    /\ UNCHANGED <<abA, abB>>
    /\ UNCHANGED pipeVars

NextAbility == Compare

SpecAbility == InitAbility /\ [][NextAbility]_vars

(***************************************************************************)
(* Delegation chains                                                       *)
(***************************************************************************)
MaxChain == 2       \* tokens in a delegation chain

\* validate as a function of the string, the resolved options and the clock:
\* "" when the token is returned, else the kind of the error thrown
validateError(w, o, now) ==
    LET d == Decode(w)
    IN  IF d.err /= "" THEN d.err
        ELSE IF o.checkIssuer /\ issuerCheckError(d.u) /= "" THEN issuerCheckError(d.u)
        ELSE IF o.checkSignature
                /\ ~verifySignatureUtf8(<<w[1], w[2]>>, d.u.signature,
                                        Get(Prop(d.u.payload, "iss")))
        THEN "InvalidSignature"
        ELSE IF o.checkIsExpired /\ isExpired(d.u, now) THEN "Expired"
        ELSE IF o.checkIsTooEarly /\ isTooEarly(d.u, now) THEN "NotYetValid"
        ELSE ""

\* the list in an optional property, empty when there is none
ListProp(obj, k) == OrDefault(Prop(obj, k), <<>>)

\* a capability is justified by a parent capability
narrows(child, parent) ==
    /\ parent.can = SUPERUSER \/ isEqual(child.can, parent.can)
    /\ child.with.scheme = parent.with.scheme
    /\ parent.with.hierPart = "*" \/ child.with.hierPart = parent.with.hierPart

\* a proof is a delegation source of the token
linked(proof, token) == Prop(proof.payload, "aud") = Prop(token.payload, "iss")

\* chain validation: "" when the token is accepted, else the kind of the error
RECURSIVE chainError(_, _)
chainError(w, now) ==
    IF validateError(w, AllChecks, now) /= "" THEN validateError(w, AllChecks, now)
    ELSE LET token  == Decode(w).u
             prf    == ListProp(token.payload, "prf")
             att    == ListProp(token.payload, "att")
             failed == {i \in DOMAIN prf : chainError(prf[i], now) /= ""}
         IN  IF prf = <<>> THEN ""
             ELSE IF failed /= {}
             THEN chainError(prf[CHOOSE i \in failed : \A j \in failed : i <= j], now)
             ELSE IF \E c \in DOMAIN att :
                        ~\E i \in DOMAIN prf :
                            /\ linked(Decode(prf[i]).u, token)
                            /\ \E j \in DOMAIN ListProp(Decode(prf[i]).u.payload, "att") :
                                 narrows(att[c], ListProp(Decode(prf[i]).u.payload, "att")[j])
             THEN "UnjustifiedCapability"
             ELSE ""

ResourceX == [scheme |-> "my", hierPart |-> "x"]

ResourceY == [scheme |-> "my", hierPart |-> "y"]

AbilityRead == Structured(<<"n">>, << <<"r">> >>)

AbilityReadUpper == Structured(<<"N">>, << <<"R">> >>)

AbilityWrite == Structured(<<"m">>, << <<"r">> >>)

CapabilityLists ==
    { <<>>,
      << [with |-> ResourceX, can |-> AbilityRead] >>,
      << [with |-> ResourceX, can |-> AbilityReadUpper] >>,
      << [with |-> ResourceX, can |-> AbilityWrite] >>,
      << [with |-> ResourceX, can |-> AbilityRead],
         [with |-> ResourceX, can |-> AbilityWrite] >>,
      << [with |-> ResourceY, can |-> AbilityRead] >>,
      << [with |-> ResourceX, can |-> SUPERUSER] >> }

Delegates == {kp \in Keypairs : ~jwtAlgorithmThrows(kp.keyType)}

\* build a token, with the token built before as its proof or with none,
\* and encode it
Delegate ==
    /\ pc = "idle"
    /\ signCalls < MaxChain
    /\ \E kp \in Delegates, aud \in Delegates, caps \in CapabilityLists,
          proofs \in {Undefined} \cup (IF signCalls > 0 THEN {Some(<<wire>>)} ELSE {}) :
         LET p == [NoParams EXCEPT
                     !.via = "build",
                     !.issuer = publicKeyBytesToDid(kp.publicKey, kp.keyType),
                     !.audience = publicKeyBytesToDid(aud.publicKey, aud.keyType),
                     !.capabilities = Some(caps),
                     !.proofs = proofs]
         IN  /\ params' = p
             /\ signArgs' = [payload |-> buildPayload(p, clock), keyType |-> kp.keyType,
                             key |-> kp.publicKey]
             /\ ucan' = signedUcan(buildPayload(p, clock), kp.keyType, kp.publicKey)
             /\ wire' = encode(ucan')
    /\ signCalls' = signCalls + 1
    /\ builtAt' = clock
    /\ tamper' = "none"
    /\ result' = Ok("build")
    /\ UNCHANGED <<abA, abB, abRes, clock, ticks, pc, options, opts, vstate, log, reads>>

\* chain-validate the token built last
ChainValidate ==
    /\ pc = "idle"
    /\ signCalls > 0
    /\ result' = IF chainError(wire, clock) = "" THEN Ok("chain")
                 ELSE Thrown("chain", chainError(wire, clock))
    /\ vstate' = Decode(wire).u
    /\ pc' = "done"
    /\ UNCHANGED <<abA, abB, abRes, clock, ticks, params, signArgs, signCalls, builtAt,
                   ucan, wire, tamper, options, opts, log, reads>>

NextChain ==
    \/ Delegate
    \/ ChainValidate

SpecChain == Init /\ [][NextChain]_vars

(***************************************************************************)
(* Properties                                                              *)
(***************************************************************************)
\* the checks of validate in the order the specification gives them
CheckOrder ==
    <<"split", "parseHeader", "parsePayload", "compatibility",
      "issuer", "signature", "expiry", "notBefore">>

CheckEnabled(c) ==
    CASE c = "issuer"    -> opts.checkIssuer
      [] c = "signature" -> opts.checkSignature
      [] c = "expiry"    -> opts.checkIsExpired
      [] c = "notBefore" -> opts.checkIsTooEarly
      [] OTHER           -> TRUE

EnabledChecks == SelectSeq(CheckOrder, CheckEnabled)

\* the errors each check reports
ErrorsOf(c) ==
    CASE c = "split"         -> {"MalformedFormat"}
      [] c = "parseHeader"   -> {"MalformedEncoding", "MalformedStructure"}
      [] c = "parsePayload"  -> {"MalformedEncoding", "MalformedStructure"}
      [] c = "compatibility" -> {"MalformedStructure"}
      [] c = "issuer"        -> {"IssuerAlgorithmMismatch", "UnsupportedKeyType",
                                 "InvalidIdentifier"}
      [] c = "signature"     -> {"InvalidSignature"}
      [] c = "expiry"        -> {"Expired"}
      [] c = "notBefore"     -> {"NotYetValid"}

\* the received token, when it decodes
Received == Decode(wire).u

SignatureVerifies ==
    /\ didDecodes(Get(Prop(Received.payload, "iss")))
    /\ wire[3] = base64urlOfBytes(
                    keypairSign(Get(Prop(Received.payload, "iss")).publicKey,
                                <<wire[1], wire[2]>>))

\* the clock that the expiry check and the not-before check read
ExpiryRead == reads[1]

NotBeforeRead == reads[Len(reads)]

\* check c, which validate executed, found the token wanting
CheckFailed(c) ==
    CASE c = "split"         -> Len(wire) < 3
      [] c = "parseHeader"   -> wire[1].kind /= "json"
      [] c = "parsePayload"  -> wire[2].kind /= "json"
      [] c = "compatibility" -> handleCompatibilityThrows(parseHeader(wire[1]),
                                                          parsePayload(wire[2]))
      [] c = "issuer"        -> issuerCheckError(Received) /= ""
      [] c = "signature"     -> ~SignatureVerifies
      [] c = "expiry"        -> Get(Prop(Received.payload, "exp")) <= ExpiryRead
      [] c = "notBefore"     -> /\ IsDefinedKey(Received.payload, "nbf")
                                /\ Get(Prop(Received.payload, "nbf")) > NotBeforeRead

Validating == pc \in {"sig", "exp", "nbf"}

Validated == pc = "done" /\ result.op = "validate"

Accepted == Validated /\ result.status = "ok"

Rejected(e) == Validated /\ result = Thrown("validate", e)

IsPrefix(s, t) == Len(s) <= Len(t) /\ s = SubSeq(t, 1, Len(s))

\* C1: validate runs the enabled checks in the fixed order decode, issuer,
\* signature, expiry, not-before and stops at the first that fails: the checks
\* executed are a prefix of the enabled checks in that order, every executed
\* check but the last passed, a rejection reports an error of the last executed
\* check, which failed, and a token is returned only when every enabled check
\* was executed and passed.
C1_FailFastInOrder ==
    /\ (Validating \/ Validated) => IsPrefix(log, EnabledChecks)
    /\ Validating => \A i \in DOMAIN log : ~CheckFailed(log[i])
    /\ Accepted =>
         /\ log = EnabledChecks
         /\ \A i \in DOMAIN log : ~CheckFailed(log[i])
    /\ (Validated /\ result.status = "error") =>
         /\ Len(log) > 0
         /\ \A i \in 1..(Len(log) - 1) : ~CheckFailed(log[i])
         /\ CheckFailed(log[Len(log)])
         /\ result.error \in ErrorsOf(log[Len(log)])

\* a token built a while ago, so that it has expired, with a forged signature
\* is rejected for the signature, and the expiry check never runs
C1_Witness ==
    /\ Rejected("InvalidSignature")
    /\ opts = AllChecks
    /\ tamper = "signature"
    /\ Get(Prop(Received.payload, "exp")) <= clock
    /\ log = <<"split", "parseHeader", "parsePayload", "compatibility",
               "issuer", "signature">>

\* validate was called without options
DefaultOptions == pc \in {"sig", "exp", "nbf", "done"} /\ options = Undefined

FromBuilder == params.via = "build" /\ pc \in {"built", "wire", "sig", "exp", "nbf", "done"}

\* C2: a token from the builder whose audience was changed before encoding, or
\* whose signature segment was replaced, is rejected by validate with default
\* options with InvalidSignature; and with the signature check enabled validate
\* goes past that check only with a signature segment that is the issuer key's
\* signature of exactly the received header and payload segments.
C2_SignatureBinding ==
    /\ (FromBuilder /\ tamper \in {"audience", "signature"} /\ DefaultOptions) =>
         /\ pc \notin {"exp", "nbf"}
         /\ Validated => result = Thrown("validate", "InvalidSignature")
    /\ (opts.checkSignature /\ (pc \in {"exp", "nbf"} \/ Accepted)) =>
         /\ SignatureVerifies
         /\ vstate.signature = wire[3]

C2_Witness ==
    /\ FromBuilder
    /\ tamper = "audience"
    /\ DefaultOptions
    /\ Rejected("InvalidSignature")

Exp == Get(Prop(Received.payload, "exp"))

HasNbf == IsDefinedKey(Received.payload, "nbf")

Nbf == Get(Prop(Received.payload, "nbf"))

TimeChecksOn == opts.checkIsExpired /\ opts.checkIsTooEarly

\* the token passes validate's earlier checks, those that are enabled
PassesEarlierChecks ==
    /\ Decode(wire).err = ""
    /\ opts.checkIssuer => issuerCheckError(Received) = ""
    /\ opts.checkSignature => SignatureVerifies

\* C3 as amended: with the expiry and not-before checks enabled validate returns
\* a token only if exp > now and nbf is absent or nbf <= now; a token that passes
\* the earlier checks with exp <= now is rejected with Expired; one with nbf
\* present and nbf > now that has not expired is rejected with NotYetValid; a
\* token without nbf is never rejected with NotYetValid.
C3_TimeBounds ==
    /\ (Accepted /\ TimeChecksOn) =>
         /\ Exp > ExpiryRead
         /\ HasNbf => Nbf <= NotBeforeRead
    /\ (Validated /\ TimeChecksOn /\ PassesEarlierChecks) =>
         /\ Len(reads) >= 1
         /\ Exp <= ExpiryRead => result = Thrown("validate", "Expired")
         /\ (Exp > ExpiryRead /\ HasNbf /\ Nbf > NotBeforeRead)
               => result = Thrown("validate", "NotYetValid")
    /\ Rejected("NotYetValid") => HasNbf

\* exp == now, every check enabled, the signature valid
C3_Witness ==
    /\ Rejected("Expired")
    /\ opts = AllChecks
    /\ tamper = "none"
    /\ Exp = ExpiryRead

\* C3 as stated: a token with nbf present and nbf > now is rejected with
\* NotYetValid whatever its exp
C3_Original ==
    (Validated /\ TimeChecksOn /\ PassesEarlierChecks /\ HasNbf /\ Nbf > clock)
        => result = Thrown("validate", "NotYetValid")

RECURSIVE AllEqual(_, _)
AllEqual(s, v) == s = <<>> \/ (Head(s) = v /\ AllEqual(Tail(s), v))

\* two objects with the same value in every property
SameObject(a, b) == \A k \in FieldNames : Prop(a, k) = Prop(b, k)

SameToken(a, b) ==
    /\ SameObject(a.header, b.header)
    /\ SameObject(a.payload, b.payload)
    /\ a.signature = b.signature

DefaultBuild ==
    /\ params.via = "build"
    /\ \A k \in {"capabilities", "lifetimeInSeconds", "expiration", "notBefore",
                 "facts", "proofs", "addNonce"} : params[k] = Undefined

\* C4: the encoding of a token built with default options, validated with default
\* options while the clock still reads what it read at building, is accepted,
\* and validate returns the token.
C4_DefaultBuildValidates ==
    (Validated /\ DefaultBuild /\ tamper = "none" /\ DefaultOptions
               /\ AllEqual(reads, builtAt))
        => /\ result = Ok("validate")
           /\ SameToken(vstate, ucan)

C4_Witness ==
    /\ Accepted
    /\ DefaultBuild
    /\ tamper = "none"
    /\ DefaultOptions
    /\ reads = <<builtAt, builtAt>>
    /\ Get(Prop(ucan.payload, "iss")).keyType = "rsa"

\* C6 as stated: a string that does not have exactly three segments is rejected
\* with MalformedFormat before anything is decoded.
C6_ExactlyThreeSegments ==
    (Validated /\ Len(wire) /= 3) =>
        /\ result = Thrown("validate", "MalformedFormat")
        /\ log = <<"split">>

\* buildPayload has run and returned
PayloadBuilt == pc \in {"signing", "built"} /\ params.via = "build"

\* C7 as stated: exp is the expiration whenever one is supplied, else
\* now + lifetimeInSeconds, the lifetime 30 by default.
C7_ExpirationOverrides ==
    PayloadBuilt =>
        Prop(signArgs.payload, "exp") =
            IF IsDefined(params.expiration) THEN params.expiration
            ELSE Some(builtAt + (IF IsDefined(params.lifetimeInSeconds)
                                 THEN Get(params.lifetimeInSeconds) ELSE 30))

\* C8: the header and payload segments of the encoding of a built token parse
\* back to objects with the same value in every property as the token's header
\* and payload, whether or not nbf, fct and nnc are defined, and the third
\* segment is the token's signature.
C8_RoundTrip ==
    (FromBuilder /\ tamper = "none" /\ pc /= "built") =>
        /\ Len(wire) = 3
        /\ parseHeaderError(wire[1]) = ""
        /\ parsePayloadError(wire[2]) = ""
        /\ SameToken([header |-> parseHeader(wire[1]),
                      payload |-> parsePayload(wire[2]),
                      signature |-> wire[3]], ucan)

\* a token without nbf, fct and nnc
C8_Witness ==
    /\ FromBuilder
    /\ tamper = "none"
    /\ pc = "wire"
    /\ \A k \in {"nbf", "fct", "nnc"} : ~IsDefinedKey(ucan.payload, k)
    /\ Len(parsePayload(wire[2]).own) < Len(ucan.payload.own)

\* the same letter, whatever its case
toUpperChar(c) ==
    CASE c = "n" -> "N"
      [] c = "r" -> "R"
      [] OTHER -> c

EqualIgnoringCase(s, t) ==
    /\ Len(s) = Len(t)
    /\ \A i \in DOMAIN s : toUpperChar(s[i]) = toUpperChar(t[i])

\* the segments with a "/" between each two
RECURSIVE PathOf(_)
PathOf(segs) ==
    IF Len(segs) = 0 THEN <<>>
    ELSE IF Len(segs) = 1 THEN segs[1]
    ELSE PathOf(SubSeq(segs, 1, Len(segs) - 1)) \o <<"/">> \o segs[Len(segs)]

EqualAbilities(a, b) ==
    \/ a.kind = "superuser" /\ b.kind = "superuser"
    \/ /\ a.kind = "structured" /\ b.kind = "structured"
       /\ EqualIgnoringCase(a.namespace, b.namespace)
       /\ EqualIgnoringCase(PathOf(a.segments), PathOf(b.segments))

\* C9: isEqual(a, b) and isSameAbility(a, b) are true iff both abilities are
\* Superuser or both are structured with namespaces equal ignoring case and
\* joined paths equal ignoring case; Superuser equals no structured ability;
\* the relation is reflexive, symmetric and transitive.
C9_AbilityEquality ==
    abRes.done =>
        /\ abRes.isEqual = EqualAbilities(abA, abB)
        /\ abRes.isSameAbility = EqualAbilities(abA, abB)
        /\ (abA.kind /= abB.kind) => ~abRes.isEqual
        /\ isEqual(abA, abA) /\ isSameAbility(abA, abA)
        /\ abRes.isEqual = isEqual(abB, abA)
        /\ abRes.isSameAbility = isSameAbility(abB, abA)
        /\ \A c \in Abilities :
             /\ (abRes.isEqual /\ isEqual(abB, c)) => isEqual(abA, c)
             /\ (abRes.isSameAbility /\ isSameAbility(abB, c)) => isSameAbility(abA, c)

\* two abilities written differently that are equal: the case of the namespace
\* differs, and one path is a single segment holding a "/"
C9_Witness ==
    /\ abRes.done
    /\ abRes.isEqual
    /\ abRes.isSameAbility
    /\ abA.namespace /= abB.namespace
    /\ Len(abA.segments) = 1
    /\ Len(abB.segments) = 2

SignAttempted == signArgs /= NoSignArgs

SupportedKeyType == signArgs.keyType \in {"ed25519", "rsa"}

IssuerKeyType == Get(Prop(signArgs.payload, "iss")).keyType

\* C10: sign invokes signFn and returns a token only for key type ed25519
\* (alg EdDSA) or rsa (alg RS256) with an issuer of that key type; for another
\* key type it fails with UnsupportedKeyType, for an issuer of another key type
\* with IssuerKeyTypeMismatch, and then signFn is never invoked and no token
\* returned.
C10_SignGuards ==
    /\ (signCalls > 0 \/ pc \in {"signing", "built"}) =>
         /\ SupportedKeyType
         /\ IssuerKeyType = signArgs.keyType
         /\ signCalls = 1
    /\ pc = "built" =>
         /\ result.status = "ok"
         /\ Prop(ucan.header, "alg") =
              Some(IF signArgs.keyType = "ed25519" THEN "EdDSA" ELSE "RS256")
    /\ (pc = "failed" /\ SignAttempted) =>
         /\ signCalls = 0
         /\ ucan = NoUcan
         /\ result.status = "error"
         /\ ~SupportedKeyType => result.error = "UnsupportedKeyType"
         /\ (SupportedKeyType /\ didDecodes(Get(Prop(signArgs.payload, "iss")))
                /\ IssuerKeyType /= signArgs.keyType)
               => result.error = "IssuerKeyTypeMismatch"

\* sign with a bls12-381 key and an issuer of that key type
C10_Witness ==
    /\ pc = "failed"
    /\ SignAttempted
    /\ signArgs.keyType = "bls12-381"
    /\ IssuerKeyType = "bls12-381"
    /\ result = Thrown("sign", "UnsupportedKeyType")
    /\ signCalls = 0

\* the token chain validation decided on, its proofs and its capabilities
ChainToken == vstate

ChainProofs ==
    [i \in DOMAIN ListProp(vstate.payload, "prf") |->
        [header  |-> parseHeader(ListProp(vstate.payload, "prf")[i][1]),
         payload |-> parsePayload(ListProp(vstate.payload, "prf")[i][2])]]

NarrowedBy(c, p) ==
    /\ p.can.kind = "superuser" \/ EqualAbilities(c.can, p.can)
    /\ c.with.scheme = p.with.scheme
    /\ p.with.hierPart = "*" \/ c.with.hierPart = p.with.hierPart

\* capability c of the token is narrowed by a capability of a proof whose
\* audience is the token's issuer
Justified(c) ==
    \E i \in DOMAIN ChainProofs :
        /\ Prop(ChainProofs[i].payload, "aud") = Prop(ChainToken.payload, "iss")
        /\ \E j \in DOMAIN ListProp(ChainProofs[i].payload, "att") :
             NarrowedBy(c, ListProp(ChainProofs[i].payload, "att")[j])

ChainValidated == pc = "done" /\ result.op = "chain"

====
